---- MODULE Spec2Model ----
(***************************************************************************)
(* Model of src/src/App.js: the quote state of App, the rate estimator     *)
(* useQuoteEstimate and the route resolver handleAutoDistance with the     *)
(* network requests it issues.                                             *)
(*                                                                         *)
(* Units.  A JavaScript number is kept as an integer count of thousandths  *)
(* (miles, pounds and dollars alike), so that the rounding of `total` to   *)
(* 1/100 is a real step.  The fields of the lane hold whole numbers or the *)
(* text of an input.  Coordinates are kept in 1/100 of a degree.           *)
(* Distances of the provider are whole meters.                             *)
(***************************************************************************)
EXTENDS Integers, Sequences, FiniteSets, TLC

VARIABLES
    quote,          \* useState quote (the lane record), App.js:89
    routeCoords,    \* useState routeCoords, App.js:107
    autoLoading,    \* useState autoLoading, App.js:108
    autoError,      \* useState autoError, App.js:109
    showHauloverDetails, \* useState showHauloverDetails, App.js:112
    apiKey,         \* process.env.REACT_APP_ORS_API_KEY, App.js:121
    estimate,       \* the memoized value of useQuoteEstimate, App.js:123
    inv,            \* the invocations of handleAutoDistance, one record each
    userActions     \* number of user actions made so far (bounded)

vars == <<quote, routeCoords, autoLoading, autoError, showHauloverDetails,
          apiKey, estimate, inv, userActions>>

----------------------------------------------------------------------------
(* Bounds of the model *)

\* The number of user actions in a run: clicks on "Use Auto Distance", edits
\* of a field, accessorial toggles, applications of the preset.
MaxUserActions == 3

----------------------------------------------------------------------------
(* JavaScript values *)

\* A JavaScript number: NaN, or a decimal number of at most three fractional
\* digits whose field v counts thousandths.
JsNum(n) == [nan |-> FALSE, v |-> n]
NaN == [nan |-> TRUE, v |-> 0]

\* The whole number n, in thousandths.
Thousandths(n) == n * 1000

\* A field of the lane that holds either a number (initial state, preset,
\* resolver) or the text of an <input> (a sequence of characters).
NumberValue(n) == [t |-> "number", n |-> n, s |-> <<>>]
StringValue(s) == [t |-> "string", n |-> 0, s |-> s]
UndefinedValue == [t |-> "undefined", n |-> 0, s |-> <<>>]

DigitValue(c) ==
    CASE c = "0" -> 0 [] c = "1" -> 1 [] c = "2" -> 2 [] c = "3" -> 3
      [] c = "4" -> 4 [] c = "5" -> 5 [] c = "6" -> 6 [] c = "7" -> 7
      [] c = "8" -> 8 [] c = "9" -> 9 [] OTHER -> -1

RECURSIVE ParseDigits(_, _)
\* The decimal value of a sequence of digits read left to right, or -1 when
\* a character is not a digit.
ParseDigits(s, acc) ==
    IF s = <<>> THEN acc
    ELSE IF DigitValue(Head(s)) < 0 THEN -1
    ELSE ParseDigits(Tail(s), acc * 10 + DigitValue(Head(s)))

RECURSIVE DotIndex(_, _)
\* The position of the first "." of s at or after k, or 0.
DotIndex(s, k) ==
    IF k > Len(s) THEN 0
    ELSE IF s[k] = "." THEN k
    ELSE DotIndex(s, k + 1)

\* The digits f after the decimal point, in thousandths (the texts of the
\* model have at most three of them).
FractionThousandths(f) ==
    CASE Len(f) = 0 -> 0
      [] Len(f) = 1 -> ParseDigits(f, 0) * 100
      [] Len(f) = 2 -> ParseDigits(f, 0) * 10
      [] OTHER -> ParseDigits(SubSeq(f, 1, 3), 0)

\* Number(s) for a string: the empty string is 0; digits with an optional
\* decimal point are their decimal value; any other string is NaN.
ParseDecimal(s) ==
    LET p == DotIndex(s, 1)
        whole == IF p = 0 THEN s ELSE SubSeq(s, 1, p - 1)
        frac == IF p = 0 THEN <<>> ELSE SubSeq(s, p + 1, Len(s))
    IN IF \/ ParseDigits(whole, 0) < 0
          \/ ParseDigits(frac, 0) < 0
          \/ (p # 0 /\ whole = <<>> /\ frac = <<>>)
       THEN NaN
       ELSE JsNum(Thousandths(ParseDigits(whole, 0)) + FractionThousandths(frac))

\* Number(x): a number is itself, undefined is NaN, a string is parsed.
ToNumber(x) ==
    IF x.t = "number" THEN JsNum(Thousandths(x.n))
    ELSE IF x.t = "undefined" THEN NaN
    ELSE ParseDecimal(x.s)

\* !x is false exactly for truthy x: a non-zero number, a non-empty string
\* (undefined is falsy).
Truthy(x) ==
    IF x.t = "number" THEN x.n # 0 ELSE x.s # <<>>

\* x || 0
OrZero(x) == IF Truthy(x) THEN x ELSE NumberValue(0)

\* (mutation) a comparison that NaN passes.
JsGreaterOrNaN(a, b) == a.nan \/ a.v > Thousandths(b)

\* (mutation) a >= b in place of a > b.
JsGreaterOrEqual(a, b) == ~a.nan /\ a.v >= Thousandths(b)

\* a > b on numbers: false when a is NaN.  b is a whole number.
JsGreater(a, b) == ~a.nan /\ a.v > Thousandths(b)

\* a + b and a * b with a possibly NaN, b a whole number.
JsAdd(a, b) == IF a.nan THEN NaN ELSE JsNum(a.v + Thousandths(b))
JsMul(a, b) == IF a.nan THEN NaN ELSE JsNum(a.v * b)

\* Math.round(num / den) for den > 0: the nearest integer, halves upwards.
MathRound(num, den) == (2 * num + den) \div (2 * den)

RECURSIVE Log2Floor(_)
\* The exponent of the binary64 number n >= 1.
Log2Floor(n) == IF n < 2 THEN 0 ELSE 1 + Log2Floor(n \div 2)

RECURSIVE Pow2Mod100(_)
Pow2Mod100(k) == IF k = 0 THEN 1 ELSE (2 * Pow2Mod100(k - 1)) % 100

\* c / 100 in binary64, for a whole c >= 100.  The quotient has exponent
\* e = Log2Floor(c \div 100) and the 53-bit significand M nearest to
\* c * 2^(52 - e) / 100.  With R the remainder of c * 2^(52 - e) by 100,
\* 100 * M differs from c * 2^(52 - e) by -R (R < 50) or by 100 - R.
HundredthResidue(c) ==
    ((c % 100) * Pow2Mod100(52 - Log2Floor(c \div 100))) % 100

\* (c / 100) * 100 = c in binary64.  The exact product lies
\* |100 * M - c * 2^(52 - e)| * 2^(e - 52) away from c, and the numbers
\* around c are 2^(f - 52) apart with f = Log2Floor(c) (half that below a
\* power of two); the product is rounded back to c exactly when it lies no
\* more than half a step away.
TimesHundredIsExact(c) ==
    LET e == Log2Floor(c \div 100)
        f == Log2Floor(c)
        R == HundredthResidue(c)
        away == IF R < 50 THEN R ELSE 100 - R
        below == R > 0 /\ R < 50
        step == IF below /\ c = 2 ^ f THEN 2 ^ (f - e - 1) ELSE 2 ^ (f - e)
    IN 2 * away <= step

----------------------------------------------------------------------------
(* useQuoteEstimate *)

base == 89
perMile == 3
fuelSurcharge == 18          \* 0.18, in percent
HeavyThreshold == 150
HeavyFee == 45
RushFee == 95
InsideFee == 35
WhiteGloveFee == 55
AfterHoursFee == 40

NullEstimate ==
    [isNull |-> TRUE, base |-> 0, perMile |-> 0, fuelSurcharge |-> 0,
     heavySurcharge |-> 0, rushFee |-> 0,
     accessorialsTotal |-> 0, dist |-> JsNum(0), linehaul |-> JsNum(0),
     subtotal |-> JsNum(0), total |-> JsNum(0)]

\* (mutation) the fuel surcharge is left out: Math.round(subtotal * 100) / 100.
TotalWithoutFuel(subtotal) ==
    IF subtotal.nan THEN NaN
    ELSE JsNum(MathRound(subtotal.v * 100, 1000) * 10)

\* (mutation) the fuel percentage is taken off: subtotal * (1 - fuelSurcharge).
TotalFuelDiscount(subtotal) ==
    IF subtotal.nan THEN NaN
    ELSE JsNum(MathRound(subtotal.v * (100 - fuelSurcharge), 1000) * 10)

\* (mutation) rounding to the dollar: Math.round(subtotal * (1 + fuelSurcharge)).
TotalWholeDollars(subtotal) ==
    IF subtotal.nan THEN NaN
    ELSE JsNum(MathRound(subtotal.v * (100 + fuelSurcharge), 100000) * 1000)

\* Math.round(subtotal * (1 + fuelSurcharge) * 100) / 100.  With subtotal.v
\* in thousandths of a dollar, subtotal * 1.18 * 100 is the fraction
\* subtotal.v * 118 / 1000 of cents; a cent is ten thousandths.
Total(subtotal) ==
    IF subtotal.nan THEN NaN
    ELSE JsNum(MathRound(subtotal.v * (100 + fuelSurcharge), 1000) * 10)

\* The body of the useMemo callback: the arguments are the hook's
\* distanceMi, weightLbs (already a number), urgency and accessories.
QuoteEstimate(distanceMi, weightLbs, urgency, accessories) ==
    IF ~Truthy(distanceMi) THEN NullEstimate
    ELSE
      LET dist == ToNumber(OrZero(distanceMi))
          heavySurcharge == IF JsGreater(weightLbs, HeavyThreshold) THEN HeavyFee ELSE 0
          rushFee == IF urgency = "expedited" THEN RushFee ELSE 0
          accessorialsTotal ==
              (IF accessories.inside THEN InsideFee ELSE 0)
            + (IF accessories.whiteGlove THEN WhiteGloveFee ELSE 0)
            + (IF accessories.afterHours THEN AfterHoursFee ELSE 0)
          linehaul == JsAdd(JsMul(dist, perMile), base)
          subtotal == JsAdd(linehaul, heavySurcharge + rushFee + accessorialsTotal)
      IN [isNull |-> FALSE, base |-> base, perMile |-> perMile,
          fuelSurcharge |-> fuelSurcharge, heavySurcharge |-> heavySurcharge,
          rushFee |-> rushFee, accessorialsTotal |-> accessorialsTotal,
          dist |-> dist, linehaul |-> linehaul, subtotal |-> subtotal,
          total |-> Total(subtotal)]

\* The arguments App passes to the hook, which are also the useMemo
\* dependencies.
EstimateDeps(q) ==
    [distanceMi |-> q.distance, weightLbs |-> ToNumber(q.weight),
     urgency |-> q.urgency, accessories |-> q.accessories]

\* The value of the hook for the lane q.
useQuoteEstimate(q) ==
    LET d == EstimateDeps(q)
    IN QuoteEstimate(d.distanceMi, d.weightLbs, d.urgency, d.accessories)

\* (mutation) the dependency list names the distance only.
RerenderOnDistance(prev, qOld, qNew) ==
    IF qNew.distance = qOld.distance THEN prev
    ELSE useQuoteEstimate(qNew)

\* useMemo across a render: the memoized value is kept while the
\* dependencies are unchanged and recomputed otherwise.
Rerender(prev, qOld, qNew) ==
    IF EstimateDeps(qNew) = EstimateDeps(qOld) THEN prev
    ELSE useQuoteEstimate(qNew)

----------------------------------------------------------------------------
(* The provider: places, coordinates, responses *)

\* Coordinates the geocoder gives for a place text, as (longitude, latitude).
PlaceCoord(text) ==
    CASE text = "Miami, FL" -> <<-8019, 2577>>
      [] text = "Atlanta, GA" -> <<-8439, 3375>>
      [] text = "Miami, FL (Haulover)" -> <<-8012, 2590>>
      [] text = "Orlando, FL" -> <<-8138, 2854>>
      [] OTHER -> <<-9000, 3000>>

\* A fetch() promise: not issued, pending, rejected (network failure) or
\* resolved with a Response.  ok is Response.ok (the HTTP status is 2xx);
\* body says what Response.json() will give:
\*   "unparseable"    json() rejects
\*   "noFeatures"     an object without a features member
\*   "emptyFeatures"  features: []
\*   "noGeometry"     features[0] has no geometry member
\*   "match"          (geocode) features[0].geometry.coordinates = [lon, lat]
\*   "route"          (directions) features[0] with a geometry member
\* For "route": hasCoords/coords are geometry.coordinates, hasDistance/meters
\* are properties.segments[0].distance.
Fetch(st, ok, body) ==
    [st |-> st, ok |-> ok, body |-> body,
     hasCoords |-> FALSE, coords |-> <<>>, hasDistance |-> FALSE, meters |-> 0]

NoFetch == Fetch("none", FALSE, "")
Pending == Fetch("pending", FALSE, "")
Rejected == Fetch("rejected", FALSE, "")

\* What a geocode request can settle to.
GeocodeOutcomes ==
    { Rejected,
      Fetch("resolved", FALSE, "unparseable"),
      Fetch("resolved", FALSE, "noFeatures"),
      Fetch("resolved", TRUE, "emptyFeatures"),
      Fetch("resolved", TRUE, "noGeometry"),
      Fetch("resolved", TRUE, "match") }

\* Segment distances (meters) the directions provider may report.
MeterOptions == {0, 700, 1000, 1000000}

Route(hasCoords, coords, hasDistance, meters) ==
    [st |-> "resolved", ok |-> TRUE, body |-> "route",
     hasCoords |-> hasCoords, coords |-> coords,
     hasDistance |-> hasDistance, meters |-> meters]

\* What the directions request for the pairs from, to can settle to.
DirectionsOutcomes(from, to) ==
    { Rejected,
      Fetch("resolved", FALSE, "unparseable"),
      Fetch("resolved", FALSE, "noFeatures"),
      Fetch("resolved", TRUE, "emptyFeatures"),
      Fetch("resolved", TRUE, "noGeometry") }
    \cup { Route(TRUE, <<from, to>>, TRUE, m) : m \in MeterOptions }
    \cup { Route(TRUE, <<>>, TRUE, 1000000),
           Route(FALSE, <<>>, TRUE, 1000000),
           Route(TRUE, <<from, to>>, FALSE, 0) }

----------------------------------------------------------------------------
(* handleAutoDistance *)

MissingCredentialMsg == "API key missing. Check .env (REACT_APP_ORS_API_KEY)."
NoMatchMsg == "No route found. Try a more specific city / state."
NoRouteMsg == "No route found. Try a more specific city / state."
TransportMsg == "Error talking to routing service. Try again."

NullCoords == [isNull |-> TRUE, pts |-> <<>>]
Coords(pts) == [isNull |-> FALSE, pts |-> pts]

\* Each click is one invocation.
Invocations == 1 .. MaxUserActions

\* An invocation that has not been made yet.  overlaps records the
\* invocations that are in flight when this one starts.
IdleInvocation ==
    [pc |-> "idle", origin |-> "", destination |-> "",
     fromRes |-> NoFetch, toRes |-> NoFetch, dirRes |-> NoFetch,
     dirBody |-> <<>>,
     outcome |-> "none", msg |-> "", escaped |-> FALSE,
     geocodeRequests |-> 0, directionsRequests |-> 0, laneWrites |-> 0,
     overlaps |-> {}]

\* The state an invocation works on: the component state and its own record.
Frame(i) ==
    [quote |-> quote, routeCoords |-> routeCoords, autoLoading |-> autoLoading,
     autoError |-> autoError, me |-> inv[i]]

setAutoError(s, m) == [s EXCEPT !.autoError = m]
setRouteCoords(s, c) == [s EXCEPT !.routeCoords = c]
setAutoLoading(s, b) == [s EXCEPT !.autoLoading = b]

\* (mutation) setQuote({ ...quote, distance: d }) with the quote of the
\* render in which the handler was called.  Of that quote the invocation
\* keeps origin and destination.
setQuoteDistanceFromClosure(s, d) ==
    [s EXCEPT !.quote.distance = NumberValue(d),
              !.quote.origin = s.me.origin,
              !.quote.destination = s.me.destination,
              !.me.laneWrites = @ + 1]

\* setQuote((q) => ({ ...q, distance: d }))
setQuoteDistance(s, d) ==
    [s EXCEPT !.quote.distance = NumberValue(d), !.me.laneWrites = @ + 1]

\* A response nothing refers to any more: what remains is how the request
\* ended (not issued, pending, rejected, resolved).
Discard(res) == Fetch(res.st, FALSE, "")

\* The locals of an invocation that has returned are gone.
DropLocals(me) ==
    [me EXCEPT !.origin = "", !.destination = "", !.dirBody = <<>>,
               !.fromRes = Discard(@), !.toRes = Discard(@), !.dirRes = Discard(@)]

\* The invocation returns: with a message shown (failed) or not (success).
Return(s, outcome) ==
    [s EXCEPT !.me = [DropLocals(@) EXCEPT
                        !.pc = "done", !.outcome = outcome,
                        !.msg = IF outcome = "failed" THEN s.autoError ELSE ""]]

\* (mutation) no finally block: autoLoading is left as it is.
FinallyMissing(s) == s

\* finally { setAutoLoading(false) }
Finally(s) == setAutoLoading(s, FALSE)

\* (mutation) the catch block lets the error through: no message is set.
CatchRethrows(s) ==
    Finally([Return(s, "failed") EXCEPT !.me.escaped = TRUE])

\* (mutation) the catch block also resets the lane distance.
CatchResetsDistance(s) ==
    Finally(Return(
        setQuoteDistance(setRouteCoords(setAutoError(s, TransportMsg), NullCoords), 0),
        "failed"))

\* catch (err) { ... } finally { ... }
Catch(s) ==
    Finally(Return(setRouteCoords(setAutoError(s, TransportMsg), NullCoords), "failed"))

\* if (!apiKey) { setAutoError(...); return; }
CredentialGuard(s) == Return(setAutoError(s, MissingCredentialMsg), "failed")

\* try { setAutoLoading(true); setAutoError(""); Promise.all([fetch, fetch])
StartResolving(s, q) ==
    [setAutoError(setAutoLoading(s, TRUE), "") EXCEPT
        !.me.pc = "awaitGeocodes",
        !.me.origin = q.origin, !.me.destination = q.destination,
        !.me.fromRes = Pending, !.me.toRes = Pending,
        !.me.geocodeRequests = @ + 2,
        !.me.overlaps = {j \in Invocations : inv[j].pc \notin {"idle", "done"}}]

\* data.features?.length is falsy
NoFeatures(res) == res.body \in {"noFeatures", "emptyFeatures"}

\* (mutation) the no-match branch leaves the polyline as it is.
NoMatchBranchKeepsRoute(s) ==
    Finally(Return(setAutoError(s, NoMatchMsg), "failed"))

\* the no-match branch, lines 171-175
NoMatchBranch(s) ==
    Finally(Return(setRouteCoords(setAutoError(s, NoMatchMsg), NullCoords), "failed"))

\* (mutation) the pairs are sent latitude first.
IssueDirectionsLatitudeFirst(s) ==
    IF s.me.fromRes.body = "noGeometry" \/ s.me.toRes.body = "noGeometry"
    THEN Catch(s)
    ELSE [s EXCEPT !.me.pc = "awaitDirections", !.me.dirRes = Pending,
                   !.me.dirBody =
                       << <<PlaceCoord(s.me.origin)[2], PlaceCoord(s.me.origin)[1]>>,
                          <<PlaceCoord(s.me.destination)[2],
                            PlaceCoord(s.me.destination)[1]>> >>,
                   !.me.directionsRequests = @ + 1]

\* (mutation) the request is made for the places the lane names now.
IssueDirectionsForCurrentLane(s) ==
    IF s.me.fromRes.body = "noGeometry" \/ s.me.toRes.body = "noGeometry"
    THEN Catch(s)
    ELSE [s EXCEPT !.me.pc = "awaitDirections", !.me.dirRes = Pending,
                   !.me.dirBody = <<PlaceCoord(s.quote.origin),
                                    PlaceCoord(s.quote.destination)>>,
                   !.me.directionsRequests = @ + 1]

\* lines 177-195: read both coordinate pairs and issue the directions request
IssueDirections(s) ==
    IF s.me.fromRes.body = "noGeometry" \/ s.me.toRes.body = "noGeometry"
    THEN Catch(s)
    ELSE [s EXCEPT !.me.pc = "awaitDirections", !.me.dirRes = Pending,
                   !.me.dirBody = <<PlaceCoord(s.me.origin), PlaceCoord(s.me.destination)>>,
                   !.me.directionsRequests = @ + 1]

\* (mutation) only the origin's features are checked.
AfterGeocodesOriginOnly(s) ==
    IF NoFeatures(s.me.fromRes) THEN NoMatchBranch(s) ELSE IssueDirections(s)

\* lines 168-195, after both bodies are parsed
AfterGeocodes(s) ==
    IF NoFeatures(s.me.fromRes) \/ NoFeatures(s.me.toRes)
    THEN NoMatchBranch(s)
    ELSE IssueDirections(s)

\* (mutation) the no-route branch writes a zero distance to the lane.
NoRouteBranchWritesZero(s) ==
    Finally(Return(
        setQuoteDistance(setRouteCoords(setAutoError(s, NoRouteMsg), NullCoords), 0),
        "failed"))

\* the no-route branch, lines 200-204
NoRouteBranch(s) ==
    Finally(Return(setRouteCoords(setAutoError(s, NoRouteMsg), NullCoords), "failed"))

\* (mutation) Math.floor in place of Math.round.
FloorMiles(meters) ==
    ((meters \div 1000) * 621371 + ((meters % 1000) * 621371) \div 1000)
        \div 1000000

\* Math.round(meters / 1000 * 0.621371), for meters below 3 455 000
RoundMiles(meters) ==
    LET km == meters \div 1000
        m == meters % 1000
        micro == km * 621371 + (m * 621371) \div 1000
    IN (micro + 500000) \div 1000000

\* segment?.distance ? segment.distance / 1000 : 0, then miles, rounded
DistanceMi(res) ==
    IF res.hasDistance /\ res.meters # 0 THEN RoundMiles(res.meters) ELSE 0

\* (mutation) the pairs are stored as the provider gives them.
KeepPairs(coords) == coords

RECURSIVE SwapPairs(_)
\* coords.map(([lon, lat]) => [lat, lon])
SwapPairs(coords) ==
    IF coords = <<>> THEN <<>>
    ELSE <<<<Head(coords)[2], Head(coords)[1]>>>> \o SwapPairs(Tail(coords))

\* feature.geometry.coordinates || []
CoordsOrEmpty(res) == IF res.hasCoords THEN res.coords ELSE <<>>

\* (mutation) a distance of zero miles is not written to the lane.
SuccessBranchSkipsZero(s) ==
    IF DistanceMi(s.me.dirRes) = 0
    THEN Finally(Return(
             setRouteCoords(s, Coords(SwapPairs(CoordsOrEmpty(s.me.dirRes)))),
             "success"))
    ELSE Finally(Return(
             setQuoteDistance(
                 setRouteCoords(s, Coords(SwapPairs(CoordsOrEmpty(s.me.dirRes)))),
                 DistanceMi(s.me.dirRes)),
             "success"))

\* lines 206-218
SuccessBranch(s) ==
    Finally(Return(
        setQuoteDistance(
            setRouteCoords(s, Coords(SwapPairs(CoordsOrEmpty(s.me.dirRes)))),
            DistanceMi(s.me.dirRes)),
        "success"))

\* lines 197-218, after the directions body is parsed
AfterDirections(s) ==
    IF NoFeatures(s.me.dirRes) THEN NoRouteBranch(s)
    ELSE IF s.me.dirRes.body = "noGeometry" THEN Catch(s)
    ELSE SuccessBranch(s)

----------------------------------------------------------------------------
(* The component: initial state, renders, user actions *)

\* What the user may type or pick.
PlaceInputs == {"Orlando, FL"}
DistanceInputs == {<<>>, <<"0">>, <<"2", ".", "5">>}
WeightInputs == {<<>>, <<"1", "5", "0">>, <<"1", "5", "1">>}
PalletInputs == {<<"3">>}
UrgencyInputs == {"standard", "expedited"}
DateInputs == {"2026-01-15"}
NoteInputs == {"dock 4"}
AccessoryKeys == {"inside", "whiteGlove", "afterHours"}
ApiKeys == {"", "ors-key"}

\* useState({ origin: "Miami, FL", ... }), lines 89-104
InitialQuote ==
    [origin |-> "Miami, FL", destination |-> "Atlanta, GA",
     distance |-> NumberValue(663), weight |-> NumberValue(120),
     pallets |-> NumberValue(2), urgency |-> "expedited",
     pickupDate |-> "", deliveryDate |-> "",
     accessories |-> [inside |-> FALSE, whiteGlove |-> FALSE, afterHours |-> FALSE],
     notes |-> ""]

Init ==
    /\ quote = InitialQuote
    /\ routeCoords = NullCoords
    /\ autoLoading = FALSE
    /\ autoError = ""
    /\ showHauloverDetails = FALSE
    /\ apiKey \in ApiKeys
    /\ estimate = useQuoteEstimate(InitialQuote)
    /\ inv = [i \in Invocations |-> IdleInvocation]
    /\ userActions = 0

\* A state change made by invocation i, and the render that follows it.
Commit(i, s) ==
    /\ quote' = s.quote
    /\ routeCoords' = s.routeCoords
    /\ autoLoading' = s.autoLoading
    /\ autoError' = s.autoError
    /\ inv' = [inv EXCEPT ![i] = s.me]
    /\ estimate' = Rerender(estimate, quote, s.quote)
    /\ UNCHANGED <<showHauloverDetails, apiKey>>

\* setQuote by the user, and the render that follows it.
UserSetQuote(q) ==
    /\ userActions < MaxUserActions
    /\ userActions' = userActions + 1
    /\ quote' = q
    /\ estimate' = Rerender(estimate, quote, q)

EditOrigin ==
    \E v \in PlaceInputs :
        /\ UserSetQuote([quote EXCEPT !.origin = v])
        /\ UNCHANGED <<routeCoords, autoLoading, autoError, showHauloverDetails, apiKey, inv>>

EditDestination ==
    \E v \in PlaceInputs :
        /\ UserSetQuote([quote EXCEPT !.destination = v])
        /\ UNCHANGED <<routeCoords, autoLoading, autoError, showHauloverDetails, apiKey, inv>>

EditDistance ==
    \E v \in DistanceInputs :
        /\ UserSetQuote([quote EXCEPT !.distance = StringValue(v)])
        /\ UNCHANGED <<routeCoords, autoLoading, autoError, showHauloverDetails, apiKey, inv>>

EditWeight ==
    \E v \in WeightInputs :
        /\ UserSetQuote([quote EXCEPT !.weight = StringValue(v)])
        /\ UNCHANGED <<routeCoords, autoLoading, autoError, showHauloverDetails, apiKey, inv>>

EditPallets ==
    \E v \in PalletInputs :
        /\ UserSetQuote([quote EXCEPT !.pallets = StringValue(v)])
        /\ UNCHANGED <<routeCoords, autoLoading, autoError, showHauloverDetails, apiKey, inv>>

EditUrgency ==
    \E v \in UrgencyInputs :
        /\ UserSetQuote([quote EXCEPT !.urgency = v])
        /\ UNCHANGED <<routeCoords, autoLoading, autoError, showHauloverDetails, apiKey, inv>>

EditPickupDate ==
    \E v \in DateInputs :
        /\ UserSetQuote([quote EXCEPT !.pickupDate = v])
        /\ UNCHANGED <<routeCoords, autoLoading, autoError, showHauloverDetails, apiKey, inv>>

EditDeliveryDate ==
    \E v \in DateInputs :
        /\ UserSetQuote([quote EXCEPT !.deliveryDate = v])
        /\ UNCHANGED <<routeCoords, autoLoading, autoError, showHauloverDetails, apiKey, inv>>

EditNotes ==
    \E v \in NoteInputs :
        /\ UserSetQuote([quote EXCEPT !.notes = v])
        /\ UNCHANGED <<routeCoords, autoLoading, autoError, showHauloverDetails, apiKey, inv>>

handleAccessoryToggle ==
    \E key \in AccessoryKeys :
        /\ UserSetQuote([quote EXCEPT !.accessories[key] = ~@])
        /\ UNCHANGED <<routeCoords, autoLoading, autoError, showHauloverDetails, apiKey, inv>>

\* The lane the preset writes, lines 232-240.
HauloverPreset(q) ==
    [q EXCEPT !.origin = "Miami, FL (Haulover)", !.destination = "Orlando, FL",
              !.distance = NumberValue(235), !.weight = NumberValue(120),
              !.pallets = NumberValue(2), !.urgency = "expedited"]

applyHauloverPreset ==
    /\ autoError' = ""
    /\ routeCoords' = NullCoords
    /\ UserSetQuote(HauloverPreset(quote))
    /\ showHauloverDetails' = TRUE
    /\ UNCHANGED <<autoLoading, apiKey, inv>>

----------------------------------------------------------------------------
(* The resolver's steps *)

\* The next invocation to be made.
NextInvocation(i) ==
    /\ inv[i].pc = "idle"
    /\ \A j \in Invocations : j < i => inv[j].pc # "idle"

\* (mutation) no credential guard: the requests are issued without a key.
HandlerEntryNoGuard(s, q) == StartResolving(s, q)

\* The body of handleAutoDistance up to its first await.
HandlerEntry(s, q) ==
    IF apiKey = "" THEN CredentialGuard(s) ELSE StartResolving(s, q)

\* A click on "Use Auto Distance": the button is disabled while autoLoading.
ClickAutoDistance(i) ==
    /\ NextInvocation(i)
    /\ ~autoLoading
    /\ userActions < MaxUserActions
    /\ userActions' = userActions + 1
    /\ Commit(i, HandlerEntry(Frame(i), quote))

\* (mutation) no join: the handler goes on as soon as the origin response
\* is there.
AfterGeocodeSettleNoJoin(s) ==
    IF s.me.pc # "awaitGeocodes" THEN [s EXCEPT !.me = DropLocals(@)]
    ELSE IF s.me.fromRes.st = "rejected" \/ s.me.toRes.st = "rejected" THEN Catch(s)
    ELSE IF s.me.fromRes.st = "resolved"
         THEN [s EXCEPT !.me.pc = "awaitFromJson"]
    ELSE s

\* (mutation) the rejection of a geocode request whose invocation has
\* already returned is handled like the first one.
AfterGeocodeSettleLateCatch(s) ==
    IF s.me.fromRes.st = "rejected" \/ s.me.toRes.st = "rejected" THEN Catch(s)
    ELSE IF s.me.pc # "awaitGeocodes" THEN [s EXCEPT !.me = DropLocals(@)]
    ELSE IF s.me.fromRes.st = "resolved" /\ s.me.toRes.st = "resolved"
         THEN [s EXCEPT !.me.pc = "awaitFromJson"]
    ELSE s

\* Promise.all over the two geocode fetches, after one of them settled.
AfterGeocodeSettle(s) ==
    IF s.me.pc # "awaitGeocodes" THEN [s EXCEPT !.me = DropLocals(@)]
    ELSE IF s.me.fromRes.st = "rejected" \/ s.me.toRes.st = "rejected" THEN Catch(s)
    ELSE IF s.me.fromRes.st = "resolved" /\ s.me.toRes.st = "resolved"
         THEN [s EXCEPT !.me.pc = "awaitFromJson"]
    ELSE s

OriginGeocodeSettles(i) ==
    /\ UNCHANGED userActions
    /\ inv[i].fromRes.st = "pending"
    /\ \E r \in GeocodeOutcomes :
        Commit(i, AfterGeocodeSettle([Frame(i) EXCEPT !.me.fromRes = r]))

DestinationGeocodeSettles(i) ==
    /\ UNCHANGED userActions
    /\ inv[i].toRes.st = "pending"
    /\ \E r \in GeocodeOutcomes :
        Commit(i, AfterGeocodeSettle([Frame(i) EXCEPT !.me.toRes = r]))

\* await fromRes.json()
AfterFromJson(s) ==
    IF s.me.fromRes.body = "unparseable" THEN Catch(s)
    ELSE [s EXCEPT !.me.pc = "awaitToJson"]

OriginBodyParsed(i) ==
    /\ UNCHANGED userActions
    /\ inv[i].pc = "awaitFromJson"
    /\ Commit(i, AfterFromJson(Frame(i)))

\* await toRes.json(), then on to the feature check
AfterToJson(s) ==
    IF s.me.toRes.body = "unparseable" THEN Catch(s)
    ELSE AfterGeocodes(s)

DestinationBodyParsed(i) ==
    /\ UNCHANGED userActions
    /\ inv[i].pc = "awaitToJson"
    /\ Commit(i, AfterToJson(Frame(i)))

\* (mutation) a rejected directions request is issued again.
AfterDirectionsSettleRetries(s) ==
    IF s.me.dirRes.st = "rejected"
    THEN [s EXCEPT !.me.dirRes = Pending, !.me.directionsRequests = @ + 1]
    ELSE [s EXCEPT !.me.pc = "awaitDirJson"]

\* await fetch(directions)
AfterDirectionsSettle(s) ==
    IF s.me.dirRes.st = "rejected" THEN Catch(s)
    ELSE [s EXCEPT !.me.pc = "awaitDirJson"]

DirectionsSettles(i) ==
    /\ UNCHANGED userActions
    /\ inv[i].pc = "awaitDirections"
    /\ \E r \in DirectionsOutcomes(inv[i].dirBody[1], inv[i].dirBody[2]) :
        Commit(i, AfterDirectionsSettle([Frame(i) EXCEPT !.me.dirRes = r]))

\* (mutation) a body that cannot be parsed leaves the handler waiting.
AfterDirJsonHangs(s) ==
    IF s.me.dirRes.body = "unparseable" THEN s
    ELSE AfterDirections(s)

\* await dirRes.json(), then on to the feature check
AfterDirJson(s) ==
    IF s.me.dirRes.body = "unparseable" THEN Catch(s)
    ELSE AfterDirections(s)

DirectionsBodyParsed(i) ==
    /\ UNCHANGED userActions
    /\ inv[i].pc = "awaitDirJson"
    /\ Commit(i, AfterDirJson(Frame(i)))

Next ==
    \/ EditOrigin
    \/ EditDestination
    \/ EditDistance
    \/ EditWeight
    \/ EditPallets
    \/ EditUrgency
    \/ EditPickupDate
    \/ EditDeliveryDate
    \/ EditNotes
    \/ handleAccessoryToggle
    \/ applyHauloverPreset
    \/ \E i \in Invocations : ClickAutoDistance(i)
    \/ \E i \in Invocations : OriginGeocodeSettles(i)
    \/ \E i \in Invocations : DestinationGeocodeSettles(i)
    \/ \E i \in Invocations : OriginBodyParsed(i)
    \/ \E i \in Invocations : DestinationBodyParsed(i)
    \/ \E i \in Invocations : DirectionsSettles(i)
    \/ \E i \in Invocations : DirectionsBodyParsed(i)

Spec == Init /\ [][Next]_vars

----------------------------------------------------------------------------
(* Progress *)

\* Every request that was issued eventually responds or fails, and a
\* continuation of the handler whose awaited promise has settled is run by
\* the event loop.
Progress ==
    \A i \in Invocations :
        /\ WF_vars(OriginGeocodeSettles(i))
        /\ WF_vars(DestinationGeocodeSettles(i))
        /\ WF_vars(OriginBodyParsed(i))
        /\ WF_vars(DestinationBodyParsed(i))
        /\ WF_vars(DirectionsSettles(i))
        /\ WF_vars(DirectionsBodyParsed(i))

\* The number of clicks in a run of SpecProgress.
MaxClicks == 2

\* A click, as long as the run has clicks left.
ClickWithinBudget(i) == i <= MaxClicks /\ ClickAutoDistance(i)

\* The resolver alone: the lane is edited by nothing but the handler.
NextProgress ==
    \/ \E i \in Invocations : ClickWithinBudget(i)
    \/ \E i \in Invocations : OriginGeocodeSettles(i)
    \/ \E i \in Invocations : DestinationGeocodeSettles(i)
    \/ \E i \in Invocations : OriginBodyParsed(i)
    \/ \E i \in Invocations : DestinationBodyParsed(i)
    \/ \E i \in Invocations : DirectionsSettles(i)
    \/ \E i \in Invocations : DirectionsBodyParsed(i)

SpecProgress == Init /\ [][NextProgress]_vars /\ Progress

----------------------------------------------------------------------------
(* A caller that does not serialize the invocations *)

\* handleAutoDistance called whether or not an earlier invocation is still
\* in flight: the handler itself does not look at autoLoading.
CallAutoDistance(i) ==
    /\ NextInvocation(i)
    /\ userActions < MaxUserActions
    /\ userActions' = userActions + 1
    /\ Commit(i, HandlerEntry(Frame(i), quote))

NextOverlap ==
    \/ EditOrigin
    \/ EditDestination
    \/ EditDistance
    \/ EditWeight
    \/ EditPallets
    \/ EditUrgency
    \/ EditPickupDate
    \/ EditDeliveryDate
    \/ EditNotes
    \/ handleAccessoryToggle
    \/ applyHauloverPreset
    \/ \E i \in Invocations : CallAutoDistance(i)
    \/ \E i \in Invocations : OriginGeocodeSettles(i)
    \/ \E i \in Invocations : DestinationGeocodeSettles(i)
    \/ \E i \in Invocations : OriginBodyParsed(i)
    \/ \E i \in Invocations : DestinationBodyParsed(i)
    \/ \E i \in Invocations : DirectionsSettles(i)
    \/ \E i \in Invocations : DirectionsBodyParsed(i)

SpecOverlap == Init /\ [][NextOverlap]_vars

----------------------------------------------------------------------------
(* The estimator over a range of lanes *)

\* The largest whole distance (miles) of the range, besides the two the
\* program itself writes.
MaxMiles == 3

\* Texts of the distance input: empty, zero, whole, and decimal ones that
\* lie 0.001 and 0.003 mi above a whole one.
DistanceTexts ==
    { <<>>, <<"0">>, <<"1">>, <<"1", ".", "0", "0", "1">>,
      <<"1", ".", "0", "0", "3">>, <<"2", ".", "5">> }

\* Values of quote.distance: numbers (initial lane, preset, resolver) and
\* texts of the input.
EstimatorDistances ==
    { NumberValue(n) : n \in (0 .. MaxMiles) \cup {235, 663} }
    \cup { StringValue(s) : s \in DistanceTexts }

\* Values of quote.weight: the number of the initial lane, texts, a text
\* that is not a number ("151lb"), and no value at all.
EstimatorWeights ==
    { NumberValue(120), UndefinedValue }
    \cup { StringValue(s) :
              s \in WeightInputs \cup {<<"0">>, <<"1", "5", "1", "l", "b">>} }

\* Values of quote.urgency: the two options of the select and a value that
\* is neither.
EstimatorUrgencies == UrgencyInputs \cup {"overnight"}

EstimatorAccessories == [AccessoryKeys -> BOOLEAN]

\* The first render of App with a lane of the range.
InitEstimate ==
    /\ \E d \in EstimatorDistances, w \in EstimatorWeights,
          u \in EstimatorUrgencies, a \in EstimatorAccessories :
          quote = [InitialQuote EXCEPT !.distance = d, !.weight = w,
                                       !.urgency = u, !.accessories = a]
    /\ routeCoords = NullCoords
    /\ autoLoading = FALSE
    /\ autoError = ""
    /\ showHauloverDetails = FALSE
    /\ apiKey \in ApiKeys
    /\ estimate = useQuoteEstimate(quote)
    /\ inv = [i \in Invocations |-> IdleInvocation]
    /\ userActions = 0

\* A render of App after the lane became q: the hook is called again.
RenderWith(q) ==
    /\ quote' = q
    /\ estimate' = Rerender(estimate, quote, q)
    /\ UNCHANGED <<routeCoords, autoLoading, autoError, showHauloverDetails,
                   apiKey, inv, userActions>>

\* One dependency of the hook changes between two renders.
ChangeDistanceMi ==
    \E d \in EstimatorDistances : RenderWith([quote EXCEPT !.distance = d])

ChangeWeightLbs ==
    \E w \in EstimatorWeights : RenderWith([quote EXCEPT !.weight = w])

ChangeUrgency ==
    \E u \in EstimatorUrgencies : RenderWith([quote EXCEPT !.urgency = u])

ChangeAccessories ==
    \E k \in AccessoryKeys :
        RenderWith([quote EXCEPT !.accessories[k] = ~@])

NextEstimate ==
    \/ ChangeDistanceMi
    \/ ChangeWeightLbs
    \/ ChangeUrgency
    \/ ChangeAccessories

SpecEstimate == InitEstimate /\ [][NextEstimate]_vars

----------------------------------------------------------------------------
(* Vocabulary of the properties *)

\* Invocation i is in flight: it has been started and has not returned.
InFlight(me) == me.pc \notin {"idle", "done"}

\* The phase of an invocation in the resolution state machine.
Phase(me) ==
    IF me.pc = "idle" THEN "Idle"
    ELSE IF me.pc # "done" THEN "Resolving"
    ELSE IF me.outcome = "success" THEN "Success" ELSE "Failed"

\* This step is a step of invocation i (a click, a response, a parsed body).
InvocationStep(i) == inv'[i] # inv[i]

\* Invocation i returns in this step.
Completes(i) == inv[i].pc # "done" /\ inv'[i].pc = "done"

\* A response whose HTTP status is not a success, or whose body cannot be parsed.
HttpFailure(res) ==
    res.st = "resolved" /\ (~res.ok \/ res.body = "unparseable")

\* A geocode lookup that worked and found nothing.
ZeroResults(res) ==
    res.st = "resolved" /\ res.ok /\ res.body = "emptyFeatures"

\* A parsed body without features, or with an empty list of them.
LacksFeatures(res) ==
    res.st = "resolved" /\ res.body \in {"noFeatures", "emptyFeatures"}

\* The distance of the lane, as a number, is zero or is not a number.
ZeroOrMissingDistance(d) ==
    \/ d.t = "number" /\ d.n = 0
    \/ d.t = "string" /\ (d.s = <<>> \/ ToNumber(d).nan \/ ToNumber(d).v = 0)

----------------------------------------------------------------------------
(* C1 *)

\* C1: estimate returns Absent (null) for every lane whose distance is zero,
\* empty or non-numeric, whether the lane holds it as a number or as the
\* text of the distance input.
C1_AbsentForZeroDistance ==
    ZeroOrMissingDistance(quote.distance) => useQuoteEstimate(quote).isNull

----------------------------------------------------------------------------
(* C2 *)

\* C2: under the caller guard, whenever an error message is shown no route
\* polyline is stored.
C2_ErrorImpliesNoPolyline ==
    autoError # "" => routeCoords.isNull

\* A failure after an earlier success: the polyline of the success is gone.
C2_Witness ==
    \E i, j \in Invocations :
        /\ i < j
        /\ inv[i].outcome = "success"
        /\ inv[j].outcome = "failed"
        /\ autoError = inv[j].msg
        /\ autoError # ""
        /\ routeCoords.isNull

----------------------------------------------------------------------------
(* C3 *)

\* C3: without an API key every invocation fails at once with the
\* missing-credential message and issues no network request.
C3_MissingCredentialNoRequest ==
    apiKey = "" =>
        \A i \in Invocations :
            /\ inv[i].pc \in {"idle", "done"}
            /\ inv[i].pc = "done" =>
                /\ inv[i].outcome = "failed"
                /\ inv[i].msg = MissingCredentialMsg
            /\ inv[i].geocodeRequests = 0
            /\ inv[i].directionsRequests = 0
            /\ inv[i].fromRes.st = "none"
            /\ inv[i].toRes.st = "none"
            /\ inv[i].dirRes.st = "none"

C3_Witness ==
    /\ apiKey = ""
    /\ inv[1].pc = "done"
    /\ autoError = MissingCredentialMsg
    /\ inv[1].geocodeRequests = 0

----------------------------------------------------------------------------
(* C4 *)

\* A transport or HTTP-level failure reaches invocation i in this step.
TransportFailureReaches(i) ==
    \/ /\ inv[i].pc = "awaitGeocodes"
       /\ inv'[i].fromRes.st = "rejected" \/ inv'[i].toRes.st = "rejected"
    \/ /\ inv[i].pc = "awaitFromJson"
       /\ HttpFailure(inv[i].fromRes)
    \/ /\ inv[i].pc = "awaitToJson"
       /\ HttpFailure(inv[i].fromRes) \/ HttpFailure(inv[i].toRes)
    \/ /\ inv[i].pc = "awaitDirections"
       /\ inv'[i].dirRes.st = "rejected"
    \/ /\ inv[i].pc = "awaitDirJson"
       /\ HttpFailure(inv[i].dirRes)

\* C4: a transport or HTTP-level failure of a geocode or directions call is
\* surfaced with the Transport message, and the NoMatch message only when a
\* geocode lookup genuinely returned zero results.
C4_NoMatchDistinctFromTransport ==
    [][\A i \in Invocations :
         Completes(i) =>
            /\ TransportFailureReaches(i) => autoError' = TransportMsg
            /\ (inv[i].pc = "awaitToJson" /\ autoError' = NoMatchMsg) =>
                  ZeroResults(inv[i].fromRes) \/ ZeroResults(inv[i].toRes)
      ]_vars

----------------------------------------------------------------------------
(* C5 *)

\* C5: when both geocode bodies are parsed and the origin's or the
\* destination's has no features, the invocation fails with NoMatch: the
\* message is set, the polyline is cleared, no directions request is issued.
C5_NoMatchOnEmptyFeatures ==
    [][\A i \in Invocations :
         ( /\ inv[i].pc = "awaitToJson"
           /\ InvocationStep(i)
           /\ inv[i].toRes.body # "unparseable"
           /\ LacksFeatures(inv[i].fromRes) \/ LacksFeatures(inv[i].toRes) )
         =>
           /\ inv'[i].pc = "done"
           /\ inv'[i].outcome = "failed"
           /\ inv'[i].msg = NoMatchMsg
           /\ autoError' = NoMatchMsg
           /\ routeCoords'.isNull
           /\ inv'[i].directionsRequests = 0
           /\ inv'[i].dirRes.st = "none"
           /\ ~autoLoading'
      ]_vars

\* A NoMatch failure after an earlier success had stored a polyline.
C5_Witness ==
    \E i, j \in Invocations :
        /\ i < j
        /\ inv[i].outcome = "success"
        /\ inv[j].pc = "done"
        /\ inv[j].msg = NoMatchMsg
        /\ inv[j].fromRes.st = "resolved"
        /\ inv[j].toRes.st = "resolved"
        /\ inv[j].directionsRequests = 0
        /\ autoError = NoMatchMsg
        /\ routeCoords.isNull

----------------------------------------------------------------------------
(* C6 *)

\* C6: when the parsed directions body has no route feature, the invocation
\* fails with NoRoute: the message is set, the polyline is cleared and the
\* lane is not written.
C6_NoRouteOnEmptyDirections ==
    [][\A i \in Invocations :
         ( /\ inv[i].pc = "awaitDirJson"
           /\ InvocationStep(i)
           /\ LacksFeatures(inv[i].dirRes)
           /\ inv[i].dirRes.body # "unparseable" )
         =>
           /\ inv'[i].pc = "done"
           /\ inv'[i].outcome = "failed"
           /\ inv'[i].msg = NoRouteMsg
           /\ autoError' = NoRouteMsg
           /\ routeCoords'.isNull
           /\ quote' = quote
           /\ inv'[i].laneWrites = 0
      ]_vars

\* A NoRoute failure after an earlier success had stored a polyline.
C6_Witness ==
    \E i, j \in Invocations :
        /\ i < j
        /\ inv[i].outcome = "success"
        /\ inv[j].pc = "done"
        /\ inv[j].msg = NoRouteMsg
        /\ inv[j].dirRes.st = "resolved"
        /\ inv[j].directionsRequests = 1
        /\ inv[j].laneWrites = 0
        /\ autoError = NoRouteMsg
        /\ routeCoords.isNull

----------------------------------------------------------------------------
(* C7 *)

\* A failure of any kind reaches invocation i in this step.
FailureReaches(i) ==
    \/ inv[i].pc = "idle" /\ InvocationStep(i) /\ apiKey = ""
    \/ /\ inv[i].pc = "awaitGeocodes"
       /\ inv'[i].fromRes.st = "rejected" \/ inv'[i].toRes.st = "rejected"
    \/ /\ inv[i].pc = "awaitFromJson" /\ InvocationStep(i)
       /\ inv[i].fromRes.body = "unparseable"
    \/ /\ inv[i].pc = "awaitToJson" /\ InvocationStep(i)
       /\ \/ inv[i].toRes.body = "unparseable"
          \/ inv[i].fromRes.body # "match"
          \/ inv[i].toRes.body # "match"
    \/ /\ inv[i].pc = "awaitDirections"
       /\ inv'[i].dirRes.st = "rejected"
    \/ /\ inv[i].pc = "awaitDirJson" /\ InvocationStep(i)
       /\ inv[i].dirRes.body # "route"

\* C7: every failure inside an invocation ends it in the Failed state with a
\* non-empty message shown; no invocation ends with an exception escaping.
C7_FailuresAreCaught ==
    [][\A i \in Invocations :
         /\ ~inv'[i].escaped
         /\ inv'[i].pc = "done" => inv'[i].outcome \in {"success", "failed"}
         /\ inv'[i].outcome = "failed" =>
               inv'[i].msg \in {MissingCredentialMsg, NoMatchMsg, NoRouteMsg, TransportMsg}
         /\ FailureReaches(i) =>
               /\ inv'[i].pc = "done"
               /\ inv'[i].outcome = "failed"
               /\ autoError' # ""
               /\ autoError' = inv'[i].msg
      ]_vars

\* A thrown error (a rejected directions request, an unparseable body or a
\* feature without geometry) has been caught.
C7_Witness ==
    \E i \in Invocations :
        /\ inv[i].pc = "done"
        /\ inv[i].outcome = "failed"
        /\ inv[i].msg = TransportMsg
        /\ inv[i].directionsRequests = 1
        /\ inv[i].dirRes.st = "resolved"
        /\ ~inv[i].escaped
        /\ autoError = TransportMsg

----------------------------------------------------------------------------
(* C8 *)

\* C8: whenever a resolution succeeds, the polyline it stores is non-empty.
C8_SuccessStoresNonEmptyPolyline ==
    [][\A i \in Invocations :
         (Completes(i) /\ inv'[i].outcome = "success") =>
            /\ ~routeCoords'.isNull
            /\ routeCoords'.pts # <<>>
      ]_vars

----------------------------------------------------------------------------
(* C9 *)

\* C9: an invocation writes to the lane at most once: exactly once, to the
\* distance field, in the step in which it succeeds, and not at all in any
\* other step.
C9_OneLaneWriteOnSuccess ==
    [][\A i \in Invocations :
         InvocationStep(i) =>
            IF Completes(i) /\ inv'[i].outcome = "success"
            THEN /\ quote' = [quote EXCEPT !.distance = quote'.distance]
                 /\ quote'.distance.t = "number"
                 /\ inv[i].laneWrites = 0
                 /\ inv'[i].laneWrites = 1
            ELSE /\ quote' = quote
                 /\ inv'[i].laneWrites = inv[i].laneWrites
      ]_vars

\* One invocation has succeeded and written once, another has failed after
\* it and written nothing: the lane still holds the distance of the success.
C9_Witness ==
    \E i, j \in Invocations :
        /\ i < j
        /\ inv[i].outcome = "success" /\ inv[i].laneWrites = 1
        /\ inv[j].outcome = "failed" /\ inv[j].laneWrites = 0
        /\ inv[j].geocodeRequests = 2
        /\ quote.distance = NumberValue(621)

----------------------------------------------------------------------------
(* C10 *)

\* autoLoading is true exactly when a resolution is in flight, and at most
\* one is.
LoadingIffInFlight ==
    /\ autoLoading <=> (\E i \in Invocations : InFlight(inv[i]))
    /\ Cardinality({i \in Invocations : InFlight(inv[i])}) <= 1

\* C10: with the button disabled while autoLoading, at most one resolution
\* is in flight, autoLoading is true exactly while one is, and an invocation
\* moves Idle -> Resolving -> Success or Failed (without a credential it
\* moves from Idle to Failed within the click and is never in flight).
C10_SingleFlight ==
    [][/\ LoadingIffInFlight
       /\ LoadingIffInFlight'
       /\ \A i \in Invocations :
            \/ Phase(inv'[i]) = Phase(inv[i])
            \/ Phase(inv[i]) = "Idle" /\ Phase(inv'[i]) = "Resolving" /\ apiKey # ""
            \/ Phase(inv[i]) = "Resolving" /\ Phase(inv'[i]) \in {"Success", "Failed"}
            \/ Phase(inv[i]) = "Idle" /\ Phase(inv'[i]) = "Failed" /\ apiKey = ""
      ]_vars

\* A second resolution is in flight after the first one has returned.
C10_Witness ==
    \E i, j \in Invocations :
        /\ i < j
        /\ inv[i].pc = "done"
        /\ InFlight(inv[j])
        /\ autoLoading

----------------------------------------------------------------------------
(* C11 *)

\* Invocations i and j were in flight at the same time.
Overlapped(i, j) == j \in inv[i].overlaps \/ i \in inv[j].overlaps

\* C11: when invocation i completes after an invocation j that overlapped
\* with it, the stored error and polyline reflect the outcome of i alone: if
\* i succeeded the error is empty, its polyline is stored and the lane holds
\* its distance; if i failed its error is set, the polyline is cleared and
\* the lane distance is left as it was.
C11_LastCompletingWins ==
    [][\A i \in Invocations :
         ( /\ Completes(i)
           /\ \E j \in Invocations \ {i} :
                 Overlapped(i, j) /\ inv[j].pc = "done" )
         => IF inv'[i].outcome = "success"
            THEN /\ autoError' = ""
                 /\ ~routeCoords'.isNull
                 /\ Len(routeCoords'.pts) = Len(CoordsOrEmpty(inv[i].dirRes))
                 /\ inv'[i].laneWrites = 1
                 /\ quote'.distance.t = "number"
            ELSE /\ autoError' # ""
                 /\ autoError' = inv'[i].msg
                 /\ routeCoords'.isNull
                 /\ quote'.distance = quote.distance
      ]_vars

----------------------------------------------------------------------------
(* C12 *)

\* A geocode response of invocation i arrives in this step while the handler
\* awaits the two of them.
GeocodeArrives(i) ==
    /\ inv[i].pc = "awaitGeocodes"
    /\ \/ inv[i].fromRes.st = "pending" /\ inv'[i].fromRes.st # "pending"
       \/ inv[i].toRes.st = "pending" /\ inv'[i].toRes.st # "pending"

\* C12: the directions request of an invocation is issued only in a step
\* before which both geocode responses have been received and both hold a
\* match; and what the arrival of a geocode response leads to depends only
\* on which responses are there, not on which came first: a rejection fails
\* the invocation with the transport message, two responses let it go on to
\* read them, one response alone changes nothing.
C12_DirectionsAfterBothGeocodes ==
    [][\A i \in Invocations :
         /\ inv'[i].directionsRequests # inv[i].directionsRequests =>
               /\ inv[i].directionsRequests = 0
               /\ inv'[i].directionsRequests = 1
               /\ inv[i].fromRes.st = "resolved" /\ inv[i].fromRes.body = "match"
               /\ inv[i].toRes.st = "resolved" /\ inv[i].toRes.body = "match"
         /\ GeocodeArrives(i) =>
               /\ inv'[i].directionsRequests = 0
               /\ IF "rejected" \in {inv'[i].fromRes.st, inv'[i].toRes.st}
                  THEN /\ Phase(inv'[i]) = "Failed"
                       /\ inv'[i].msg = TransportMsg
                  ELSE IF "pending" \in {inv'[i].fromRes.st, inv'[i].toRes.st}
                  THEN /\ inv'[i].pc = "awaitGeocodes"
                       /\ <<quote, routeCoords, autoLoading, autoError>>'
                            = <<quote, routeCoords, autoLoading, autoError>>
                  ELSE inv'[i].pc = "awaitFromJson"
      ]_vars

\* One invocation has issued its directions request; a later one holds the
\* destination response and still waits for the origin response.
C12_Witness ==
    \E i, j \in Invocations :
        /\ inv[i].directionsRequests = 1
        /\ inv[j].pc = "awaitGeocodes"
        /\ inv[j].toRes.st = "resolved" /\ inv[j].fromRes.st = "pending"
        /\ inv[j].directionsRequests = 0

----------------------------------------------------------------------------
(* C13 *)

\* C13: when an invocation succeeds on a directions response whose route
\* feature has geometry coordinates, the stored polyline has the length of
\* the provider geometry and its k-th element is (latitude, longitude) of the
\* provider's k-th (longitude, latitude) pair.
C13_PolylineSwapsPairs ==
    [][\A i \in Invocations :
         ( /\ Completes(i)
           /\ inv'[i].outcome = "success"
           /\ inv[i].dirRes.hasCoords )
         => /\ ~routeCoords'.isNull
            /\ Len(routeCoords'.pts) = Len(inv[i].dirRes.coords)
            /\ \A k \in 1 .. Len(inv[i].dirRes.coords) :
                  /\ routeCoords'.pts[k][1] = inv[i].dirRes.coords[k][2]
                  /\ routeCoords'.pts[k][2] = inv[i].dirRes.coords[k][1]
      ]_vars

\* The geometry [[-80.19, 25.77], [-84.39, 33.75]] of the initial lane is
\* stored as [[25.77, -80.19], [33.75, -84.39]].
C13_Witness ==
    /\ routeCoords = Coords(<<<<2577, -8019>>, <<3375, -8439>>>>)
    /\ \E i \in Invocations : inv[i].outcome = "success"

----------------------------------------------------------------------------
(* C14 *)

\* C14: when an invocation succeeds on a route whose first segment has a
\* distance of meters > 0, the distance written to the lane is the whole
\* number nearest to meters / 1000 * 0.621371 (at most half a mile away from
\* it, in millionths of a mile); 1000000 meters give 621.
C14_DistanceInRoundedMiles ==
    [][\A i \in Invocations :
         ( /\ Completes(i)
           /\ inv'[i].outcome = "success"
           /\ inv[i].dirRes.hasDistance
           /\ inv[i].dirRes.meters > 0 )
         => LET meters == inv[i].dirRes.meters
                micro == (meters \div 1000) * 621371
                         + ((meters % 1000) * 621371) \div 1000
                written == quote'.distance
            IN /\ written.t = "number"
               /\ written.n * 1000000 - 500000 <= micro
               /\ micro < written.n * 1000000 + 500000
               /\ meters = 1000000 => written.n = 621
      ]_vars

\* 1000 meters are 0.621371 mi, written as 1.
C14_Witness ==
    /\ quote.distance = NumberValue(1)
    /\ \E i \in Invocations :
          inv[i].outcome = "success" /\ inv[i].laneWrites = 1

----------------------------------------------------------------------------
(* Vocabulary of the estimator properties *)

\* The distance and the weight of the lane as numbers (thousandths).
LaneDistance == ToNumber(quote.distance)
LaneWeight == ToNumber(quote.weight)

\* The lane has a distance that is a positive number.
PositiveDistance == ~LaneDistance.nan /\ LaneDistance.v > 0

Abs(n) == IF n < 0 THEN -n ELSE n

----------------------------------------------------------------------------
(* C15 *)

\* C15: for every lane with a positive distance the estimate is a breakdown
\* whose heavy surcharge is 45 exactly when weight > 150, whose rush fee is
\* 95 exactly when urgency is "expedited", whose accessorials are the sum of
\* 35, 55 and 40 over the active flags, and whose total is
\* (89 + 3 * distance + heavy + rush + accessorials) * 1.18 rounded to the
\* nearest cent: a whole number of cents at most half a cent away.
C15_TotalFormula ==
    LET heavy == IF ~LaneWeight.nan /\ LaneWeight.v > 150000 THEN 45 ELSE 0
        rush == IF quote.urgency = "expedited" THEN 95 ELSE 0
        accessorials ==
              (IF quote.accessories.inside THEN 35 ELSE 0)
            + (IF quote.accessories.whiteGlove THEN 55 ELSE 0)
            + (IF quote.accessories.afterHours THEN 40 ELSE 0)
        \* (89 + 3 * distance + ...) * 1.18 in 1/100000 of a dollar
        exact == (89000 + 3 * LaneDistance.v
                  + 1000 * (heavy + rush + accessorials)) * 118
    IN PositiveDistance =>
         /\ ~estimate.isNull
         /\ estimate.heavySurcharge = heavy
         /\ estimate.rushFee = rush
         /\ estimate.accessorialsTotal = accessorials
         /\ ~estimate.total.nan
         /\ estimate.total.v % 10 = 0
         /\ Abs(estimate.total.v * 100 - exact) <= 500

\* 1.001 mi, 151 lb, an urgency that is not "expedited", inside delivery and
\* after-hours: (89 + 3.003 + 45 + 75) * 1.18 = 250.16354, total 250.16.
C15_Witness ==
    /\ quote.distance = StringValue(<<"1", ".", "0", "0", "1">>)
    /\ quote.weight = StringValue(<<"1", "5", "1">>)
    /\ quote.urgency = "overnight"
    /\ quote.accessories.inside /\ quote.accessories.afterHours
    /\ ~quote.accessories.whiteGlove
    /\ estimate.heavySurcharge = 45 /\ estimate.rushFee = 0
    /\ estimate.total = JsNum(250160)

----------------------------------------------------------------------------
(* C16 *)

\* C16: for the lane distance 663, weight 120, urgency "expedited", no
\* accessorials the estimate has base 89, linehaul 2078, heavy surcharge 0,
\* rush fee 95, subtotal 2173 and total 2564.14.
C16_InitialLaneEstimate ==
    ( /\ LaneDistance = JsNum(663000)
      /\ LaneWeight = JsNum(120000)
      /\ quote.urgency = "expedited"
      /\ \A k \in AccessoryKeys : ~quote.accessories[k] )
    => /\ ~estimate.isNull
       /\ estimate.base = 89
       /\ estimate.linehaul = JsNum(2078000)
       /\ estimate.heavySurcharge = 0
       /\ estimate.rushFee = 95
       /\ estimate.subtotal = JsNum(2173000)
       /\ estimate.total = JsNum(2564140)

\* The lane App starts with, estimated.
C16_Witness ==
    /\ quote.distance = NumberValue(663)
    /\ quote.weight = NumberValue(120)
    /\ quote.urgency = "expedited"
    /\ \A k \in AccessoryKeys : ~quote.accessories[k]
    /\ estimate.total = JsNum(2564140)

----------------------------------------------------------------------------
(* C17 *)

\* C17: for every lane with a non-negative distance and weight for which the
\* estimate is a breakdown, total >= linehaul.
C17_TotalAtLeastLinehaul ==
    ( /\ ~LaneDistance.nan /\ LaneDistance.v >= 0
      /\ ~LaneWeight.nan /\ LaneWeight.v >= 0
      /\ ~estimate.isNull )
    => /\ ~estimate.total.nan /\ ~estimate.linehaul.nan
       /\ estimate.total.v >= estimate.linehaul.v

\* The lane with nothing but base and mileage: 1 mi, linehaul 92, total
\* 108.56.
C17_Witness ==
    /\ LaneDistance = JsNum(1000)
    /\ estimate.heavySurcharge = 0 /\ estimate.rushFee = 0
    /\ estimate.accessorialsTotal = 0
    /\ estimate.linehaul = JsNum(92000)
    /\ estimate.total = JsNum(108560)

----------------------------------------------------------------------------
(* C18 *)

\* The estimate of the lane with its distance replaced by d.
EstimateAtDistance(d) == useQuoteEstimate([quote EXCEPT !.distance = d])

\* d is a distance above the positive distance of the lane.
LongerDistance(d) ==
    /\ PositiveDistance
    /\ ~ToNumber(d).nan
    /\ ToNumber(d).v > LaneDistance.v

\* C18: for any two lanes that differ only in distance, with 0 < d1 < d2, the
\* total for d1 is strictly less than the total for d2.
C18_StrictlyMonotone ==
    \A d \in EstimatorDistances :
        LongerDistance(d) =>
            estimate.total.v < EstimateAtDistance(d).total.v

\* C18 amended: for 0 < d1 < d2 the total for d1 is at most the total for
\* d2, and strictly less when d2 - d1 >= 0.003 mi (so for any two whole
\* distances).
C18_MonotoneUpToRounding ==
    \A d \in EstimatorDistances :
        LongerDistance(d) =>
            /\ estimate.total.v <= EstimateAtDistance(d).total.v
            /\ ToNumber(d).v - LaneDistance.v >= 3 =>
                   estimate.total.v < EstimateAtDistance(d).total.v

\* 1 mi against 1.001 mi (the same total, 220.66) and against 1.003 mi (a
\* cent more).
C18_Witness ==
    /\ LaneDistance = JsNum(1000)
    /\ quote.urgency = "expedited"
    /\ estimate.total = JsNum(220660)
    /\ EstimateAtDistance(StringValue(<<"1", ".", "0", "0", "1">>)).total
          = JsNum(220660)
    /\ EstimateAtDistance(StringValue(<<"1", ".", "0", "0", "3">>)).total
          = JsNum(220670)

----------------------------------------------------------------------------
(* C19 *)

\* C19: for every lane for which the estimate is a breakdown, total has at
\* most two fractional digits and total * 100 is an integer.
C19_WholeCents ==
    ~estimate.isNull =>
        /\ ~estimate.total.nan
        /\ estimate.total.v % 10 = 0
        /\ TimesHundredIsExact(estimate.total.v \div 10)

----------------------------------------------------------------------------
(* C21 *)

\* Invocation i issues a request in this step.
IssuesRequest(i) ==
    \/ inv'[i].geocodeRequests # inv[i].geocodeRequests
    \/ inv'[i].directionsRequests # inv[i].directionsRequests
    \/ inv[i].fromRes.st # "pending" /\ inv'[i].fromRes.st = "pending"
    \/ inv[i].toRes.st # "pending" /\ inv'[i].toRes.st = "pending"
    \/ inv[i].dirRes.st # "pending" /\ inv'[i].dirRes.st = "pending"

\* C21: there is no retry.  The two geocode requests of an invocation are
\* issued in the step of the click that starts it, which every invocation
\* with a credential does; its directions request is issued at most once,
\* while it is in flight; and once it has returned it issues no request.
C21_NoRetry ==
    [][\A i \in Invocations :
         /\ (inv[i].pc = "idle" /\ inv'[i].pc # "idle" /\ apiKey # "") =>
               inv'[i].geocodeRequests = 2
         /\ inv'[i].geocodeRequests # inv[i].geocodeRequests =>
               /\ inv[i].pc = "idle"
               /\ inv[i].geocodeRequests = 0
               /\ inv'[i].geocodeRequests = 2
               /\ userActions' = userActions + 1
         /\ inv'[i].directionsRequests # inv[i].directionsRequests =>
               /\ InFlight(inv[i])
               /\ inv[i].directionsRequests = 0
               /\ inv'[i].directionsRequests = 1
         /\ inv[i].pc = "done" => ~IssuesRequest(i)
      ]_vars

\* An invocation has failed on its directions request, having issued two
\* geocode requests and one directions request; the next one, started by a
\* new click, has issued its own two geocode requests.
C21_Witness ==
    \E i, j \in Invocations :
        /\ i < j
        /\ inv[i].outcome = "failed" /\ inv[i].dirRes.st = "rejected"
        /\ inv[i].geocodeRequests = 2 /\ inv[i].directionsRequests = 1
        /\ inv[j].pc = "awaitGeocodes" /\ inv[j].geocodeRequests = 2

----------------------------------------------------------------------------
(* C22 *)

\* C22: if every issued request eventually responds or fails, then whenever
\* an invocation is in flight or autoLoading is true, eventually no
\* invocation is in flight, every invocation that was made is in Success or
\* Failed, and autoLoading is false.
C22_EventuallyReturns ==
    (autoLoading \/ \E i \in Invocations : InFlight(inv[i])) ~>
        ( /\ ~autoLoading
          /\ \A i \in Invocations :
                Phase(inv[i]) \in {"Idle", "Success", "Failed"} )

\* An invocation has returned with the no-route failure and one with a
\* success, and the button is available again.
C22_Witness ==
    /\ ~autoLoading
    /\ \E i, j \in Invocations :
          /\ inv[i].outcome = "failed" /\ inv[i].msg = NoRouteMsg
          /\ inv[i].directionsRequests = 1
          /\ inv[j].outcome = "success"

----------------------------------------------------------------------------
(* C23 *)

\* C23: in every reachable state the estimate App holds is the estimate of
\* the lane as it is now.
C23_EstimateNeverStale ==
    estimate = QuoteEstimate(quote.distance, ToNumber(quote.weight),
                             quote.urgency, quote.accessories)

\* A weight typed by the user and a distance written by a successful
\* resolution are both in the estimate.
C23_Witness ==
    /\ \E i \in Invocations : inv[i].outcome = "success"
    /\ quote.distance = NumberValue(621)
    /\ quote.weight = StringValue(<<"1", "5", "1">>)
    /\ estimate.dist = JsNum(621000)
    /\ estimate.heavySurcharge = 45

----------------------------------------------------------------------------
(* C24 *)

\* The longitude and the latitude the geocoder returns for a place text.
GeocodedLongitude(text) == PlaceCoord(text)[1]
GeocodedLatitude(text) == PlaceCoord(text)[2]

\* C24: while the directions request of an invocation is out, its body holds
\* exactly two pairs: first (longitude, latitude) as geocoded for the origin
\* text of the invocation, then (longitude, latitude) as geocoded for its
\* destination text.
C24_DirectionsBody ==
    \A i \in Invocations :
        inv[i].pc \in {"awaitDirections", "awaitDirJson"} =>
            /\ inv[i].directionsRequests = 1
            /\ Len(inv[i].dirBody) = 2
            /\ inv[i].dirBody[1] = <<GeocodedLongitude(inv[i].origin),
                                     GeocodedLatitude(inv[i].origin)>>
            /\ inv[i].dirBody[2] = <<GeocodedLongitude(inv[i].destination),
                                     GeocodedLatitude(inv[i].destination)>>

\* The request for the initial lane is out: Miami (-80.19, 25.77) first,
\* Atlanta (-84.39, 33.75) second.
C24_Witness ==
    \E i \in Invocations :
        /\ inv[i].pc = "awaitDirections"
        /\ inv[i].dirRes.st = "pending"
        /\ inv[i].origin = "Miami, FL" /\ inv[i].destination = "Atlanta, GA"
        /\ inv[i].dirBody = << <<-8019, 2577>>, <<-8439, 3375>> >>

----------------------------------------------------------------------------
(* C25 *)

DecimalChars == {"0", "1", "2", "3", "4", "5", "6", "7", "8", "9", "."}

\* The weight is missing, empty, or a text with a character no number has.
MissingWeight(w) ==
    \/ w.t = "undefined"
    \/ w.t = "string" /\ w.s = <<>>
    \/ w.t = "string" /\ \E k \in 1 .. Len(w.s) : w.s[k] \notin DecimalChars

\* C25: for a weight that is missing, empty or unparseable the estimate is
\* the estimate of the same lane with weight 0, and its heavy surcharge is 0.
C25_MissingWeightIsZero ==
    MissingWeight(quote.weight) =>
        /\ estimate = useQuoteEstimate([quote EXCEPT !.weight = NumberValue(0)])
        /\ ~estimate.isNull => estimate.heavySurcharge = 0

\* The weight text "151lb" with a breakdown: no heavy surcharge.
C25_Witness ==
    /\ quote.weight = StringValue(<<"1", "5", "1", "l", "b">>)
    /\ quote.distance = NumberValue(663)
    /\ ~estimate.isNull
    /\ estimate.heavySurcharge = 0
    /\ estimate.subtotal = JsNum(2173000)

----------------------------------------------------------------------------
(* C26 *)

\* The fields of the lane other than the distance.
OtherLaneFields ==
    {"origin", "destination", "weight", "pallets", "urgency", "pickupDate",
     "deliveryDate", "accessories", "notes"}

\* C26: the step in which an invocation succeeds leaves every field of the
\* lane other than the distance as it is right before the step, also where
\* it differs from what the invocation started with, and writes the distance
\* of the response whatever distance the lane held.
C26_SuccessWritesDistanceOnly ==
    [][\A i \in Invocations :
         (Completes(i) /\ inv'[i].outcome = "success") =>
            /\ \A f \in OtherLaneFields : quote'[f] = quote[f]
            /\ DOMAIN quote' = DOMAIN quote
            /\ quote'.distance = NumberValue(DistanceMi(inv[i].dirRes))
      ]_vars

\* The preset was applied while the resolution of the initial lane was in
\* flight: the lane keeps the preset's places and the distance 235 of the
\* preset is replaced by the resolved 621.
C26_Witness ==
    /\ \E i \in Invocations : inv[i].outcome = "success"
    /\ showHauloverDetails
    /\ quote.origin = "Miami, FL (Haulover)"
    /\ quote.destination = "Orlando, FL"
    /\ quote.distance = NumberValue(621)
    /\ routeCoords = Coords(<<<<2577, -8019>>, <<3375, -8439>>>>)

----------------------------------------------------------------------------
(* C27 *)

\* C27: an invocation takes origin and destination from the lane in the step
\* of the click; while it is in flight they and the body of its directions
\* request do not change, whatever is done to the lane; and when it succeeds
\* on a route with coordinates, the polyline stored is that of the places of
\* the click.
C27_UsesInvocationTimePlaces ==
    [][\A i \in Invocations :
         /\ (inv[i].pc = "idle" /\ InFlight(inv'[i])) =>
               /\ inv'[i].origin = quote.origin
               /\ inv'[i].destination = quote.destination
         /\ (InFlight(inv[i]) /\ InFlight(inv'[i])) =>
               /\ inv'[i].origin = inv[i].origin
               /\ inv'[i].destination = inv[i].destination
               /\ inv[i].directionsRequests = 1 => inv'[i].dirBody = inv[i].dirBody
         /\ ( /\ Completes(i) /\ inv'[i].outcome = "success"
              /\ inv[i].dirRes.hasCoords /\ inv[i].dirRes.coords # <<>> ) =>
               routeCoords' =
                   Coords(<< <<PlaceCoord(inv[i].origin)[2],
                               PlaceCoord(inv[i].origin)[1]>>,
                             <<PlaceCoord(inv[i].destination)[2],
                               PlaceCoord(inv[i].destination)[1]>> >>)
      ]_vars

\* After a first success a second resolution of the initial lane was
\* started, the preset was applied while it was in flight (which cleared the
\* polyline), and it succeeded: the lane names Haulover and Orlando, the
\* polyline is Miami to Atlanta.
C27_Witness ==
    /\ \E i, j \in Invocations :
          i < j /\ inv[i].outcome = "success" /\ inv[j].outcome = "success"
    /\ quote.origin = "Miami, FL (Haulover)"
    /\ quote.destination = "Orlando, FL"
    /\ ~routeCoords.isNull
    /\ routeCoords.pts = <<<<2577, -8019>>, <<3375, -8439>>>>
    /\ quote.distance.t = "number" /\ quote.distance.n # 235

----------------------------------------------------------------------------
(* C28 *)

\* The route of a response carries no segment distance, a distance of zero,
\* or one that rounds to 0 miles.
NoMilesInRoute(res) ==
    ~res.hasDistance \/ res.meters = 0 \/ RoundMiles(res.meters) = 0

\* C28: when an invocation succeeds on a route without a segment distance,
\* with a distance of zero or with one that rounds to 0 miles, the step
\* writes the number 0 to the lane's distance whatever it held, the estimate
\* of the render that follows is absent, the polyline of the route is
\* stored, and no error message is set.
C28_ZeroDistanceSuccess ==
    [][\A i \in Invocations :
         ( /\ Completes(i) /\ inv'[i].outcome = "success"
           /\ NoMilesInRoute(inv[i].dirRes) ) =>
            /\ quote'.distance = NumberValue(0)
            /\ estimate'.isNull
            /\ routeCoords' =
                   Coords(SwapPairs(CoordsOrEmpty(inv[i].dirRes)))
            /\ autoError' = "" /\ autoError = ""
            /\ ~autoLoading'
      ]_vars

\* A resolution has succeeded with zero miles: the lane holds the number 0
\* (typing gives text), there is no estimate, a polyline and no message.
C28_Witness ==
    /\ \E i \in Invocations : inv[i].outcome = "success"
    /\ quote.distance = NumberValue(0)
    /\ estimate.isNull
    /\ ~routeCoords.isNull
    /\ autoError = ""
    /\ ~autoLoading

----------------------------------------------------------------------------
(* C29 *)

\* A geocode request of invocation i fails in this step.
GeocodeFails(i) ==
    \/ inv[i].fromRes.st = "pending" /\ inv'[i].fromRes.st = "rejected"
    \/ inv[i].toRes.st = "pending" /\ inv'[i].toRes.st = "rejected"

\* A response to a geocode request of invocation i, which has returned,
\* arrives in this step.
LateGeocodeResponse(i) ==
    /\ inv[i].pc = "done"
    /\ \/ inv[i].fromRes.st = "pending" /\ inv'[i].fromRes.st # "pending"
       \/ inv[i].toRes.st = "pending" /\ inv'[i].toRes.st # "pending"

\* C29: when a geocode request of an invocation that awaits its geocode
\* responses fails, the invocation fails in that step with the transport
\* message, the polyline cleared and autoLoading false, whether or not the
\* other response is there; and a response to the other request that
\* arrives afterwards changes neither the message, the polyline, the lane,
\* the estimate, autoLoading, the outcome of the invocation nor any other
\* invocation, in flight or not.
C29_FirstGeocodeFailureWins ==
    [][\A i \in Invocations :
         /\ (inv[i].pc = "awaitGeocodes" /\ GeocodeFails(i)) =>
               /\ Completes(i)
               /\ inv'[i].outcome = "failed"
               /\ inv'[i].msg = TransportMsg
               /\ autoError' = TransportMsg
               /\ routeCoords' = NullCoords
               /\ ~autoLoading'
               /\ quote' = quote
         /\ LateGeocodeResponse(i) =>
               /\ UNCHANGED <<quote, estimate, routeCoords, autoLoading,
                              autoError, showHauloverDetails>>
               /\ inv'[i].pc = "done"
               /\ inv'[i].outcome = inv[i].outcome
               /\ inv'[i].msg = inv[i].msg
               /\ inv'[i].directionsRequests = inv[i].directionsRequests
               /\ \A j \in Invocations \ {i} : inv'[j] = inv[j]
      ]_vars

\* An invocation failed on a geocode request before its directions request;
\* both its geocode requests have been answered, the second one after it
\* returned; a newer invocation is in flight and its state is untouched:
\* autoLoading is true and no message is shown.
C29_Witness ==
    \E i, j \in Invocations :
        /\ i < j
        /\ inv[i].outcome = "failed" /\ inv[i].msg = TransportMsg
        /\ inv[i].directionsRequests = 0
        /\ inv[i].fromRes.st = "rejected" /\ inv[i].toRes.st = "rejected"
        /\ InFlight(inv[j])
        /\ autoLoading
        /\ autoError = ""

====
